---- MODULE Spec2Model ----
(***************************************************************************)
(* Model of the create2crunch OpenCL salt miner: the search loop of gpu()  *)
(* (src/src/lib.rs), main() (src/src/main.rs) and the pure scoring         *)
(* function score_address() (src/src/score_address.rs).                    *)
(*                                                                         *)
(* Byte strings are sequences of 0..255 (1-based: byte i of the source is  *)
(* element i+1), text is a sequence of one-character strings.              *)
(***************************************************************************)
EXTENDS Integers, Sequences, FiniteSets, TLC

VARIABLES
    pc,                   \* position of the host thread in main()/gpu()
    overflow_checks,      \* build profile: TRUE = arithmetic overflow panics, FALSE = wraps
    config,               \* the Config handed to gpu()
    work_duration_millis, \* lib.rs:156
    salt,                 \* lib.rs:161, the round's run segment
    message_buffer,       \* lib.rs:164
    nonce,                \* lib.rs:173
    nonce_buffer,         \* lib.rs:176 / 239
    solutions,            \* lib.rs:184, the host slot
    solutions_buffer,     \* lib.rs:185, the device slot
    work_start_time_millis, \* lib.rs:213
    slept,                \* milliseconds handed to thread::sleep before the read-back
    solution_message,     \* lib.rs:255
    hash_input,           \* bytes fed to Keccak::update, lib.rs:267
    address,              \* lib.rs:274
    score,                \* lib.rs:277, also the return value of score_address
    request,              \* the JSON body handed to the HTTP client, lib.rs:280
    send_result,          \* outcome of .send(), lib.rs:290
    stderr,               \* diagnostics written by eprintln!
    gpu_result,           \* "running", "Err" (gpu returned Err), "panic"
    exit_code,            \* process exit status, -1 while running
    fault,                \* the fallible operation that failed, "none" otherwise
    last_dispatch,        \* kernel arguments of the latest enqueue of this round
    dispatches,           \* number of enqueues in this round
    round_sends,          \* requests handed to the HTTP client in this round
    prev_salt,            \* run segment of the round that finished last
    args,                 \* the process arguments, program name first (main.rs:6)
    devices,              \* how many devices the platform lists
    device,               \* the device gpu() selected, as an index into that list
    program_src           \* the constants gpu() put in front of the kernel source

vars == <<pc, overflow_checks, config, work_duration_millis, salt, message_buffer,
          nonce, nonce_buffer, solutions, solutions_buffer, work_start_time_millis,
          slept, solution_message, hash_input, address, score, request, send_result,
          stderr, gpu_result, exit_code, fault, last_dispatch, dispatches,
          round_sends, prev_salt, args, devices, device, program_src>>

----------------------------------------------------------------------------
(* Bounds of the model *)

\* largest number of dispatches of one round that may all come back zero
MaxZeroRun == 2

\* the largest number of devices a platform lists
MaxDevices == 2

----------------------------------------------------------------------------
(* Program constants and machine widths *)

CONTROL_CHARACTER == 255

\* u32 and u64 values are sequences of 16-bit limbs, most significant first
\* (2 limbs for a u32, 4 for a u64)
Base == 256 * 256

Wide32(n) == <<n \div Base, n % Base>>

Wide64(n) == <<0, 0, n \div Base, n % Base>>

MaxLimb == Base - 1

\* a + 1 at the width of a: the wrapped value and whether it overflowed
RECURSIVE WideInc(_)
WideInc(a) ==
    IF Len(a) = 0 THEN [value |-> <<>>, overflow |-> TRUE]
    ELSE LET front == SubSeq(a, 1, Len(a) - 1) IN
         IF a[Len(a)] + 1 < Base
         THEN [value |-> Append(front, a[Len(a)] + 1), overflow |-> FALSE]
         ELSE LET r == WideInc(front) IN
              [value |-> Append(r.value, 0), overflow |-> r.overflow]

\* limbs 1..k of a - b - borrow at the width of a, and whether it underflowed
RECURSIVE SubLimbs(_, _, _, _)
SubLimbs(a, b, k, borrow) ==
    IF k = 0 THEN [value |-> <<>>, overflow |-> borrow = 1]
    ELSE LET d == a[k] - b[k] - borrow
             rest == SubLimbs(a, b, k - 1, IF d < 0 THEN 1 ELSE 0)
         IN  [value |-> Append(rest.value, IF d < 0 THEN d + Base ELSE d),
              overflow |-> rest.overflow]

WideSub(a, b) == SubLimbs(a, b, Len(a), 0)

\* limbs 1..k of a * m + carry at the width of a, and whether it overflowed
RECURSIVE MulLimbs(_, _, _, _)
MulLimbs(a, m, k, carry) ==
    IF k = 0 THEN [value |-> <<>>, overflow |-> carry # 0]
    ELSE LET p == a[k] * m + carry
             rest == MulLimbs(a, m, k - 1, p \div Base)
         IN  [value |-> Append(rest.value, p % Base), overflow |-> rest.overflow]

WideMul(a, m) == MulLimbs(a, m, Len(a), 0)

\* a / d rounded down, by long division from limb i with remainder rem
RECURSIVE DivLimbs(_, _, _, _)
DivLimbs(a, d, i, rem) ==
    IF i > Len(a) THEN <<>>
    ELSE LET cur == rem * Base + a[i] IN
         <<cur \div d>> \o DivLimbs(a, d, i + 1, cur % d)

WideDiv(a, d) == DivLimbs(a, d, 1, 0)

\* a < b for two values of the same width
RECURSIVE WideLess(_, _)
WideLess(a, b) ==
    IF Len(a) = 0 THEN FALSE
    ELSE IF a[1] # b[1] THEN a[1] < b[1]
    ELSE WideLess(Tail(a), Tail(b))

\* no error, no outcome yet
None == "none"

\* a local that does not exist (yet, or any more)
Absent == <<>>

Rep(b, n) == [i \in 1..n |-> b]

Iota(base, n) == [i \in 1..n |-> base + i]

----------------------------------------------------------------------------
(* score_address, src/src/score_address.rs *)

\* lines 3-7: byte >> 4 is the high nibble, byte & 0x0F the low nibble
Nibbles(addr) ==
    [j \in 1..40 |-> IF j % 2 = 1 THEN addr[(j + 1) \div 2] \div 16
                                   ELSE addr[j \div 2] % 16]

\* line 13: nibbles.iter().take_while(|n| n == 0).count()
RECURSIVE TakeWhileZero(_, _)
TakeWhileZero(n, i) ==
    IF i > Len(n) THEN 0
    ELSE IF n[i] = 0 THEN 1 + TakeWhileZero(n, i + 1)
    ELSE 0

\* the window test of line 20
IsFourFours(n, i) == n[i] = 4 /\ n[i + 1] = 4 /\ n[i + 2] = 4 /\ n[i + 3] = 4

\* lines 18-27 with the break dropped: every window that starts with 4444 scores
RECURSIVE WindowScanNoBreak(_, _)
WindowScanNoBreak(n, w) ==
    IF w + 4 > Len(n) THEN 0
    ELSE IF IsFourFours(n, w)
         THEN 40 + (IF n[w + 4] # 4 THEN 20 ELSE 0) + WindowScanNoBreak(n, w + 1)
         ELSE WindowScanNoBreak(n, w + 1)

\* lines 18-27: nibbles.windows(5), windows start at 1 .. Len-4; the first
\* window whose first four nibbles are 4 scores and ends the scan
RECURSIVE WindowScan(_, _)
WindowScan(n, w) ==
    IF w + 4 > Len(n) THEN 0
    ELSE IF IsFourFours(n, w)
         THEN 40 + (IF n[w + 4] # 4 THEN 20 ELSE 0)
         ELSE WindowScan(n, w + 1)

\* lines 30-33 reading the four nibbles one place too early
TrailingBonusShifted(n) ==
    IF Len(n) >= 5 /\ IsFourFours(n, Len(n) - 4) THEN 20 ELSE 0

\* lines 30-33
TrailingBonus(n) ==
    IF Len(n) >= 4 /\ IsFourFours(n, Len(n) - 3) THEN 20 ELSE 0

\* line 36: nibbles.iter().filter(|n| n == 4).count()
RECURSIVE CountFours(_, _)
CountFours(n, i) ==
    IF i > Len(n) THEN 0
    ELSE (IF n[i] = 4 THEN 1 ELSE 0) + CountFours(n, i + 1)

score_address(addr) ==
    LET nibbles == Nibbles(addr)
        s1 == TakeWhileZero(nibbles, 1) * 10
        s2 == s1 + WindowScan(nibbles, 1)
        s3 == s2 + TrailingBonus(nibbles)
    IN  s3 + CountFours(nibbles, 1)

----------------------------------------------------------------------------
(* Values the environment supplies *)

\* keccak256(b""), the init-code hash of the end-to-end scenario
EmptyCodeHash ==
    <<197, 210, 70, 1, 134, 247, 35, 60, 146, 126, 125, 178, 220, 199, 3, 192,
      229, 0, 182, 83, 202, 130, 39, 59, 123, 250, 216, 4, 93, 133, 164, 112>>

\* a collector endpoint, as text
Url == <<"h", "t", "t", "p", ":", "/", "/", "c">>

\* validated configurations (Config, lib.rs:28-34)
Configs ==
    { [factory_address |-> Iota(0, 20), calling_address |-> Iota(100, 20),
       init_code_hash |-> Iota(200, 32), gpu_device |-> 0, endpoint_url |-> Url],
      [factory_address |-> Rep(0, 19) \o <<1>>, calling_address |-> Rep(0, 19) \o <<2>>,
       init_code_hash |-> EmptyCodeHash, gpu_device |-> 255, endpoint_url |-> Url] }

\* values FixedBytes::<4>::random() may return (lib.rs:161)
RunSegments == { <<222, 173, 190, 239>>, <<1, 2, 3, 4>> }

\* values rng.gen::<[u32; 1]>() may return (lib.rs:173)
NonceSeeds == { Wide32(7), <<MaxLimb, MaxLimb - 1>>, <<MaxLimb, MaxLimb>> }

\* values the kernel may leave in the solutions slot
LaneResults ==
    { Wide64(0), Wide64(1), <<258, 772, 1286, 1800>> }

\* wall-clock readings in milliseconds since the epoch; the wall clock may step back
ClockReadings == { Wide64(1000), Wide64(1100) }

\* 20-byte digests tails the hash may produce
Addresses ==
    { <<0, 4, 68, 71>> \o Rep(18, 14) \o <<68, 68>>,
      <<20, 68, 68>> \o Rep(171, 17) }

----------------------------------------------------------------------------
(* Pure helpers of gpu() *)

\* lib.rs:253, u64::to_le_bytes
to_le_bytes(v) ==
    [i \in 1..8 |-> IF i % 2 = 1 THEN v[4 - (i \div 2)] % 256 ELSE v[5 - (i \div 2)] \div 256]

\* lines 255-261 with the run segment copied one byte late
BuildMessageShifted(cfg, seg, solution) ==
    [i \in 1..85 |->
        IF i = 1 THEN CONTROL_CHARACTER
        ELSE IF i <= 21 THEN cfg.factory_address[i - 1]
        ELSE IF i <= 41 THEN cfg.calling_address[i - 21]
        ELSE IF i = 42 THEN 0
        ELSE IF i <= 46 THEN seg[i - 42]
        ELSE IF i <= 53 THEN solution[i - 45]
        ELSE cfg.init_code_hash[i - 53]]

\* lib.rs:255-261: the zeroed 85-byte array and the six slice copies
BuildMessage(cfg, seg, solution) ==
    LET m0 == Rep(0, 85)
        m1 == [m0 EXCEPT ![1] = CONTROL_CHARACTER]
        m2 == [i \in 1..85 |-> IF i \in 2..21 THEN cfg.factory_address[i - 1] ELSE m1[i]]
        m3 == [i \in 1..85 |-> IF i \in 22..41 THEN cfg.calling_address[i - 21] ELSE m2[i]]
        m4 == [i \in 1..85 |-> IF i \in 42..45 THEN seg[i - 41] ELSE m3[i]]
        m5 == [i \in 1..85 |-> IF i \in 46..53 THEN solution[i - 45] ELSE m4[i]]
    IN  [i \in 1..85 |-> IF i \in 54..85 THEN cfg.init_code_hash[i - 53] ELSE m5[i]]

HexChars ==
    <<"0", "1", "2", "3", "4", "5", "6", "7", "8", "9", "a", "b", "c", "d", "e", "f">>

\* hex::encode (lib.rs:284-286): two lower-case digits per byte, high nibble first
hex_encode(bytes) ==
    [k \in 1..(2 * Len(bytes)) |->
        IF k % 2 = 1 THEN HexChars[(bytes[(k + 1) \div 2] \div 16) + 1]
                     ELSE HexChars[(bytes[k \div 2] % 16) + 1]]

\* lines 283-286 encoding the 4-byte run segment and the lane bytes in the other order
FormatSaltSwapped(cfg, seg, solution) ==
    <<"0", "x">> \o hex_encode(cfg.calling_address) \o hex_encode(solution) \o hex_encode(seg)

\* lib.rs:283-286: format!("0x{}{}{}", caller, salt, solution)
FormatSalt(cfg, seg, solution) ==
    <<"0", "x">> \o hex_encode(cfg.calling_address) \o hex_encode(seg) \o hex_encode(solution)

\* a device buffer: Buffer::builder().flags(..).len(..).copy_host_slice(..)
MkBuffer(flags, data) == [flags |-> flags, len |-> Len(data), data |-> data]

\* the ? operator taking no early return on a failed read-back
QuestionIgnoresRead(failed) == failed \notin {None, "read"}

\* the ? operator of lib.rs:129-244: an Err makes gpu() return it
Question(failed) == failed # None

\* lines 292-294 returning the transport error to the caller
AfterSendPropagate(res) ==
    IF res = "err" THEN [pc |-> "gpu_returned", gpu_result |-> "Err"]
    ELSE [pc |-> "round_start", gpu_result |-> "running"]

\* lib.rs:292-296: a failed send is logged and the outer loop goes on
AfterSend(res) == [pc |-> "round_start", gpu_result |-> "running"]

\* the inner loop going on after a non-zero result
FoundNeverBreaks(slot) == FALSE

\* the inner loop ending after every dispatch
FoundAlways(slot) == TRUE

\* lib.rs:231-233: a non-zero slot ends the inner loop
Found(slot) == slot[1] # Wide64(0)

\* lib.rs:236: nonce[0] += 1 on a u32
Increment(n) == WideInc(n)

\* lib.rs:218: work_duration_millis * 980 / 1000 on a u64
SleepMillis(d) ==
    LET product == WideMul(d, 980) IN
    [value |-> WideDiv(product.value, 1000), overflow |-> product.overflow]

\* a guard that lets the host sleep before every read-back
ShouldSleepAlways(d) == TRUE

\* lib.rs:216: if work_duration_millis != 0
ShouldSleep(d) == d # Wide64(0)

\* a selection that always takes the first device of the list
by_idx_first(n, idx) == 0

\* Device::by_idx_wrap (lib.rs:132): the index wraps around the device list
by_idx_wrap(n, idx) == idx % n

\* Iterator::enumerate: each element with its position, counted from 0
Enumerate(seq) == [i \in 1..Len(seq) |-> <<i - 1, seq[i]>>]

\* a numbering of the constants that uses the position as it is
DefineIndexPlain(i) == i

\* lib.rs:311: the constant for position i is S_{i + 1}
DefineIndex(i) == i + 1

\* mk_kernel_src (lib.rs:302-315): the #define lines in front of the kernel
\* source, each as <<n, x>> for "#define S_n xu"
mk_kernel_src(cfg) ==
    LET factory == cfg.factory_address
        caller  == cfg.calling_address
        hash    == [i \in 1..Len(cfg.init_code_hash) |->
                       <<Enumerate(cfg.init_code_hash)[i][1] + 52, cfg.init_code_hash[i]>>]
        chained == Enumerate(factory \o caller) \o hash
    IN  [k \in 1..Len(chained) |-> <<DefineIndex(chained[k][1]), chained[k][2]>>]

\* lib.rs:227-228: end - start on a u64
WorkDuration(end, start) == WideSub(end, start)

----------------------------------------------------------------------------
(* State groups *)

buildVars == <<overflow_checks, config, args, devices>>

\* the device session gpu() sets up before the loop
sessionVars == <<device, program_src>>

\* the locals of gpu()
bufferVars == <<salt, message_buffer, nonce, nonce_buffer, solutions, solutions_buffer>>

clockVars == <<work_duration_millis, work_start_time_millis>>

findingVars == <<solution_message, hash_input, address, score>>

\* what the process has handed to the outside, and the bookkeeping of the round
httpVars == <<request, send_result, round_sends>>

procVars == <<stderr, gpu_result, exit_code>>

dispatchVars == <<last_dispatch, dispatches>>

\* before gpu() runs none of its locals exists
Idle ==
    /\ salt = Absent /\ message_buffer = Absent /\ nonce = Absent /\ nonce_buffer = Absent
    /\ solutions = Absent /\ solutions_buffer = Absent /\ prev_salt = Absent
    /\ work_duration_millis = Absent /\ work_start_time_millis = Absent /\ slept = Absent
    /\ solution_message = Absent /\ hash_input = Absent /\ request = Absent
    /\ send_result = None /\ round_sends = 0
    /\ stderr = {} /\ gpu_result = "running" /\ exit_code = -1
    /\ fault = None /\ last_dispatch = Absent /\ dispatches = 0
    /\ device = Absent /\ program_src = Absent

\* main.rs:6-11: a validated Config exists and gpu(config) is called
Init ==
    /\ pc = "setup"
    /\ overflow_checks \in BOOLEAN
    /\ config \in Configs
    /\ args = Absent
    /\ devices \in 1..MaxDevices
    /\ address = Absent /\ score = Absent
    /\ Idle

\* leaving gpu() drops its locals
DropLocals ==
    /\ salt' = Absent /\ message_buffer' = Absent /\ nonce' = Absent /\ nonce_buffer' = Absent
    /\ solutions' = Absent /\ solutions_buffer' = Absent
    /\ work_duration_millis' = Absent /\ work_start_time_millis' = Absent
    /\ solution_message' = Absent /\ hash_input' = Absent /\ address' = Absent
    /\ score' = Absent
    /\ device' = Absent /\ program_src' = Absent

\* gpu() returns Err(e): the ? of the failing call
ReturnErr ==
    /\ pc' = "gpu_returned"
    /\ gpu_result' = "Err"
    /\ DropLocals
    /\ UNCHANGED <<stderr, exit_code>>

\* a Rust panic on the main thread: message on stderr, exit status 101
Panic ==
    /\ pc' = "panicked"
    /\ gpu_result' = "panic"
    /\ DropLocals
    /\ stderr' = stderr \cup {"thread 'main' panicked: arithmetic overflow"}
    /\ exit_code' = 101

\* lib.rs:120-156: client, platform, device, context, program, queue, rng
Setup ==
    /\ pc = "setup"
    /\ \E failed \in {None, "default_platform", "by_idx_wrap", "build"} :
        /\ fault' = failed
        /\ IF Question(failed)
           THEN ReturnErr
           ELSE /\ pc' = "round_start"
                /\ device' = [index |-> by_idx_wrap(devices, config.gpu_device)]
                /\ program_src' = mk_kernel_src(config)
                /\ work_duration_millis' = Wide64(0)
                /\ UNCHANGED <<bufferVars, work_start_time_millis, findingVars, procVars>>
    /\ UNCHANGED <<buildVars, prev_salt, slept, httpVars, dispatchVars>>

\* lib.rs:159-190: the top of the outer loop
RoundStart ==
    /\ pc = "round_start"
    /\ \E seg \in RunSegments, seed \in NonceSeeds,
          failed \in {None, "message_buffer", "nonce_buffer", "solutions_buffer"} :
        /\ fault' = failed
        /\ IF Question(failed)
           THEN /\ ReturnErr
                /\ UNCHANGED <<prev_salt, httpVars, dispatchVars>>
           ELSE /\ pc' = "kernel"
                /\ salt' = seg
                /\ message_buffer' = MkBuffer("read_only", seg)
                /\ nonce' = <<seed>>
                /\ nonce_buffer' = MkBuffer("read_only", <<seed>>)
                /\ solutions' = <<Wide64(0)>>
                /\ solutions_buffer' = MkBuffer("write_only", <<Wide64(0)>>)
                /\ prev_salt' = salt
                \* the locals of the previous iteration are out of scope
                /\ solution_message' = Absent /\ hash_input' = Absent
                /\ address' = Absent /\ score' = Absent
                /\ request' = Absent /\ send_result' = None
                /\ round_sends' = 0
                /\ last_dispatch' = Absent /\ dispatches' = 0
                /\ UNCHANGED <<clockVars, procVars, sessionVars>>
    /\ UNCHANGED <<buildVars, slept>>

\* lib.rs:195-205: kernel_builder(..).build()? and the three set_arg(..)?
KernelBuild ==
    /\ pc = "kernel"
    /\ \E failed \in {None, "kernel_build", "set_arg"} :
        /\ fault' = failed
        /\ IF Question(failed)
           THEN ReturnErr
           ELSE /\ pc' = "enq"
                /\ UNCHANGED <<bufferVars, clockVars, findingVars, procVars, sessionVars>>
    /\ UNCHANGED <<buildVars, prev_salt, slept, httpVars, dispatchVars>>

\* what the kernel may leave in the slot on the dispatch after n earlier ones
DeviceResults(n) == IF n < MaxZeroRun THEN LaneResults ELSE LaneResults \ {Wide64(0)}

\* lib.rs:208-213: kern.enq()? and the first clock reading; the kernel writes the
\* solutions slot only when a lane found a qualifying hash
Enqueue ==
    /\ pc = "enq"
    /\ \E failed \in {None, "enq"}, r \in DeviceResults(dispatches),
          now \in ClockReadings :
        /\ fault' = failed
        /\ IF Question(failed)
           THEN /\ ReturnErr
                /\ UNCHANGED dispatchVars
           ELSE /\ pc' = "sleep"
                /\ solutions_buffer' =
                       IF r # Wide64(0) THEN [solutions_buffer EXCEPT !.data = <<r>>]
                       ELSE solutions_buffer
                /\ work_start_time_millis' = now
                /\ last_dispatch' = [message |-> message_buffer.data,
                                     nonce |-> nonce_buffer.data[1],
                                     nonce_flags |-> nonce_buffer.flags,
                                     slot |-> solutions_buffer.data[1]]
                /\ dispatches' = dispatches + 1
                /\ UNCHANGED <<salt, message_buffer, nonce, nonce_buffer, solutions,
                               work_duration_millis, findingVars, procVars, sessionVars>>
    /\ UNCHANGED <<buildVars, prev_salt, slept, httpVars>>

\* lib.rs:216-220: sleep for work_duration_millis * 980 / 1000 milliseconds
Sleep ==
    /\ pc = "sleep"
    /\ LET millis == SleepMillis(work_duration_millis) IN
        IF ~ ShouldSleep(work_duration_millis)
        THEN /\ pc' = "read" /\ slept' = Absent
             /\ UNCHANGED <<bufferVars, clockVars, findingVars, procVars, sessionVars>>
        ELSE IF millis.overflow /\ overflow_checks
        THEN Panic /\ UNCHANGED slept
        ELSE /\ pc' = "read" /\ slept' = millis.value
             /\ UNCHANGED <<bufferVars, clockVars, findingVars, procVars, sessionVars>>
    /\ UNCHANGED <<buildVars, prev_salt, httpVars, fault, dispatchVars>>

\* lib.rs:223-228: the blocking read-back and the second clock reading
Read ==
    /\ pc = "read"
    /\ \E failed \in {None, "read"}, now \in ClockReadings :
        /\ fault' = failed
        /\ IF Question(failed)
           THEN ReturnErr
           ELSE LET d == WorkDuration(now, work_start_time_millis) IN
                IF d.overflow /\ overflow_checks
                THEN Panic
                ELSE /\ pc' = "check"
                     /\ solutions' = solutions_buffer.data
                     /\ work_duration_millis' = d.value
                     /\ UNCHANGED <<salt, message_buffer, nonce, nonce_buffer,
                                    solutions_buffer, work_start_time_millis,
                                    findingVars, procVars, sessionVars>>
    /\ UNCHANGED <<buildVars, prev_salt, slept, httpVars, dispatchVars>>

\* lib.rs:231-244: leave the inner loop, or increment the nonce and rebuild its buffer
Check ==
    /\ pc = "check"
    /\ IF Found(solutions)
       THEN /\ pc' = "harvest"
            /\ UNCHANGED <<bufferVars, clockVars, findingVars, procVars, sessionVars, fault>>
       ELSE IF Increment(nonce[1]).overflow /\ overflow_checks
       THEN Panic /\ UNCHANGED fault
       ELSE \E failed \in {None, "nonce_buffer"} :
            /\ fault' = failed
            /\ IF Question(failed)
               THEN ReturnErr
               ELSE /\ pc' = "kernel"
                    /\ nonce' = <<Increment(nonce[1]).value>>
                    /\ nonce_buffer' = MkBuffer("read_write", nonce')
                    /\ UNCHANGED <<salt, message_buffer, solutions, solutions_buffer,
                                   clockVars, findingVars, procVars, sessionVars>>
    /\ UNCHANGED <<buildVars, prev_salt, slept, httpVars, dispatchVars>>

\* lib.rs:248-277: the pre-image, its hash, the address and its score; the digest
\* is the hash library's, any 20-byte tail it may produce
Harvest ==
    /\ pc = "harvest"
    /\ IF solutions[1] = Wide64(0)
       THEN /\ pc' = "round_start"
            /\ UNCHANGED findingVars
       ELSE \E digest \in Addresses :
            LET solution == to_le_bytes(solutions[1]) IN
            /\ solution_message' = BuildMessage(config, salt, solution)
            /\ hash_input' = solution_message'
            /\ address' = digest
            /\ score' = score_address(digest)
            /\ pc' = "send"
    /\ UNCHANGED <<buildVars, sessionVars, bufferVars, clockVars, prev_salt, slept, httpVars,
                   procVars, fault, dispatchVars>>

\* lib.rs:280-296: POST the finding; an Err is written to stderr
Send ==
    /\ pc = "send"
    /\ \E res \in {"ok", "err"} :
        /\ request' = [url |-> config.endpoint_url,
                       salt |-> FormatSalt(config, salt, to_le_bytes(solutions[1])),
                       address |-> address,
                       score |-> score]
        /\ send_result' = res
        /\ round_sends' = round_sends + 1
        /\ stderr' = IF res = "err"
                     THEN stderr \cup {"Failed to send result to endpoint"}
                     ELSE stderr
        /\ pc' = AfterSend(res).pc
        /\ gpu_result' = AfterSend(res).gpu_result
    /\ UNCHANGED <<buildVars, sessionVars, bufferVars, clockVars, findingVars, prev_salt, slept,
                   exit_code, fault, dispatchVars>>

\* main.rs:11-14: eprintln!("GPU application error: {e}"); process::exit(1)
MainErr ==
    /\ pc = "gpu_returned"
    /\ gpu_result = "Err"
    /\ pc' = "exited"
    /\ stderr' = stderr \cup {"GPU application error"}
    /\ exit_code' = 1
    /\ UNCHANGED <<buildVars, sessionVars, bufferVars, clockVars, findingVars, prev_salt, slept,
                   httpVars, gpu_result, fault, dispatchVars>>

Next ==
    \/ Setup
    \/ RoundStart
    \/ KernelBuild
    \/ Enqueue
    \/ Sleep
    \/ Read
    \/ Check
    \/ Harvest
    \/ Send
    \/ MainErr

Spec == Init /\ [][Next]_vars

----------------------------------------------------------------------------
(* score_address on its own: every input of a family of addresses is scored *)

NibblesToBytes(n) == [i \in 1..20 |-> 16 * n[2 * i - 1] + n[2 * i]]

\* k zero nibbles, then pat, then fill up to the last four nibbles, which are tail
AddressOf(k, pat, fill, tail) ==
    NibblesToBytes([j \in 1..40 |->
        IF j <= k THEN 0
        ELSE IF j - k <= Len(pat) THEN pat[j - k]
        ELSE IF j >= 37 THEN tail[j - 36]
        ELSE fill])

ScorePatterns ==
    { <<>>, <<7>>, <<4, 4, 4>>, <<4, 4, 4, 4>>, <<4, 4, 4, 4, 4>>, <<4, 4, 4, 4, 7>>,
      <<1, 4, 4, 4, 4>>, <<1, 4, 4, 4, 4, 4>>, <<4, 4, 4, 1, 4, 4, 4, 4, 2>> }

ScoreTails == { <<4, 4, 4, 4>>, <<4, 4, 4, 1>>, <<1, 4, 4, 4>>, <<0, 0, 0, 0>> }

ScoreInputs ==
    { AddressOf(k, pat, fill, tail) :
        k \in 0..40, pat \in ScorePatterns, fill \in {0, 4, 9}, tail \in ScoreTails }

ScoreInit ==
    /\ pc = "score_call"
    /\ overflow_checks = FALSE
    /\ config \in Configs
    /\ args = Absent
    /\ devices \in 1..MaxDevices
    /\ address \in ScoreInputs
    /\ score = Absent
    /\ Idle

\* lib.rs:277: score_address(address.as_slice())
ScoreCall ==
    /\ pc = "score_call"
    /\ pc' = "score_return"
    /\ score' = score_address(address)
    /\ UNCHANGED <<buildVars, sessionVars, bufferVars, clockVars, solution_message, hash_input, address,
                   prev_salt, slept, httpVars, procVars, fault, dispatchVars>>

ScoreNext == ScoreCall

ScoreSpec == ScoreInit /\ [][ScoreNext]_vars

----------------------------------------------------------------------------
(* The scoring rules as the design states them, for the claims on score_address *)

\* the index of the first non-zero nibble minus one (40 when there is none)
LeadingZeros(n) ==
    CHOOSE k \in 0..40 : (\A j \in 1..k : n[j] = 0) /\ (k = 40 \/ n[k + 1] # 0)

AllFour(n, from, to) == \A j \in from..to : n[j] = 4

NumFours(n) == Cardinality({j \in 1..40 : n[j] = 4})

\* rule 2 of the design: the four nibbles right after the leading-zero run
RunBonusAfterZeros(n) ==
    LET k == LeadingZeros(n) IN
    IF k + 4 <= 40 /\ AllFour(n, k + 1, k + 4)
    THEN 40 + (IF k + 5 <= 40 /\ n[k + 5] # 4 THEN 20 ELSE 0)
    ELSE 0

\* the run bonus of the first group of four 4s that a fifth nibble follows,
\* wherever it starts
RunBonusAnywhere(n) ==
    IF \E w \in 1..36 : AllFour(n, w, w + 3)
    THEN LET w0 == CHOOSE w \in 1..36 :
                       AllFour(n, w, w + 3) /\ \A v \in 1..(w - 1) : ~AllFour(n, v, v + 3)
         IN  40 + (IF n[w0 + 4] # 4 THEN 20 ELSE 0)
    ELSE 0

TrailBonus(n) == IF AllFour(n, 37, 40) THEN 20 ELSE 0

Scored == pc = "score_return"

\* C7 (as claimed): score_address returns 10 per leading zero nibble, +40 exactly
\* when the four nibbles right after the leading-zero run are all 4 (+20 more when
\* a nibble follows them and is not 4), +20 when nibbles 36..39 are all 4, and +1
\* per nibble equal to 4.
C7_ScoreIsSpecified ==
    Scored =>
        LET n == Nibbles(address) IN
        score = 10 * LeadingZeros(n) + RunBonusAfterZeros(n) + TrailBonus(n) + NumFours(n)

\* the case of C8: k leading zeros, then 4,4,4,4, then a nibble that is not 4
C8_Case(n) ==
    LET k == LeadingZeros(n) IN
    k + 5 <= 40 /\ AllFour(n, k + 1, k + 4) /\ n[k + 5] # 4

\* C8 (as claimed): in that case the score is 10*k + 40 + 20 + the number of 4s.
C8_Original ==
    Scored =>
        LET n == Nibbles(address) IN
        C8_Case(n) => score = 10 * LeadingZeros(n) + 40 + 20 + NumFours(n)

\* C8 (amended): in that case the score is 10*k + 40 + 20 + the number of 4s, plus
\* 20 when the last four nibbles are all 4.
C8_RunAfterZeros ==
    Scored =>
        LET n == Nibbles(address) IN
        C8_Case(n) => score = 10 * LeadingZeros(n) + 40 + 20 + NumFours(n) + TrailBonus(n)

C8_Witness ==
    /\ Scored
    /\ C8_Case(Nibbles(address))
    /\ AllFour(Nibbles(address), 37, 40)
    /\ LeadingZeros(Nibbles(address)) = 3

\* the address with its last four nibbles replaced by t
WithTail(addr, t) ==
    [i \in 1..20 |-> IF i = 19 THEN 16 * t[1] + t[2]
                     ELSE IF i = 20 THEN 16 * t[3] + t[4]
                     ELSE addr[i]]

\* C9 (as claimed): an address ending in 4444 and the same address with other last
\* four nibbles differ in score by the trailing bonus plus the per-4 and run
\* bonuses only.
C9_Original ==
    (Scored /\ AllFour(Nibbles(address), 37, 40)) =>
        \A t \in ScoreTails \ {<<4, 4, 4, 4>>} :
            LET a == Nibbles(address)
                b == Nibbles(WithTail(address, t))
            IN  score - score_address(WithTail(address, t)) =
                    20 + (NumFours(a) - NumFours(b))
                       + (RunBonusAnywhere(a) - RunBonusAnywhere(b))

\* C9 (amended): the score is the leading-zero, run and per-4 bonuses plus a
\* trailing bonus that is 20 exactly when nibbles 36..39 are all 4 and 0 otherwise,
\* whatever the number of leading zero nibbles.
C9_TrailingBonus ==
    Scored =>
        LET n == Nibbles(address) IN
        score - (10 * LeadingZeros(n) + RunBonusAnywhere(n) + NumFours(n)) =
            (IF n[37] = 4 /\ n[38] = 4 /\ n[39] = 4 /\ n[40] = 4 THEN 20 ELSE 0)

C9_Witness ==
    /\ Scored
    /\ AllFour(Nibbles(address), 37, 40)
    /\ LeadingZeros(Nibbles(address)) = 36
    /\ score = 384

----------------------------------------------------------------------------
(* Claims on the search loop *)

Zero64 == <<0, 0, 0, 0>>

\* bytes b[from], b[from+1], .. are the little-endian bytes of the u64 r: each
\* pair of bytes is one 16-bit limb, the least significant limb first
IsLittleEndianOf(b, from, r) ==
    \A j \in 0..3 : b[from + 2 * j] + 256 * b[from + 2 * j + 1] = r[4 - j]

\* C1: the pre-image hashed for a finding is 85 bytes: 0xFF, the factory address,
\* the caller address, the run segment of the current round, the 8 little-endian
\* bytes of the lane result, the init-code hash.
C1_MessageLayout ==
    (solution_message # Absent) =>
        /\ hash_input = solution_message
        /\ Len(solution_message) = 85
        /\ solution_message[1] = 255
        /\ \A i \in 1..20 : solution_message[1 + i] = config.factory_address[i]
        /\ \A i \in 1..20 : solution_message[21 + i] = config.calling_address[i]
        /\ \A i \in 1..4 : solution_message[41 + i] = message_buffer.data[i]
        /\ message_buffer.data = salt
        /\ solutions[1] # Zero64
        /\ IsLittleEndianOf(solution_message, 46, solutions[1])
        /\ \A i \in 1..32 : solution_message[53 + i] = config.init_code_hash[i]

C1_Witness ==
    /\ pc = "send"
    /\ solution_message # Absent
    /\ solutions[1] = <<258, 772, 1286, 1800>>
    /\ SubSeq(solution_message, 46, 53) = <<8, 7, 6, 5, 4, 3, 2, 1>>
    /\ prev_salt # Absent
    /\ prev_salt # salt

HexValue(c) == CHOOSE v \in 0..15 : HexChars[v + 1] = c

\* the bytes a string of hex digits stands for
HexDecode(str) ==
    [i \in 1..(Len(str) \div 2) |-> 16 * HexValue(str[2 * i - 1]) + HexValue(str[2 * i])]

\* C2: the salt of a report is "0x" and 64 hex digits for caller address, run
\* segment and the lane result's 8 little-endian bytes (lane result 1 ends it with
\* 0100000000000000): bytes 21..52 of the pre-image hashed for the same report.
C2_SaltMatchesMessage ==
    (request # Absent /\ hash_input # Absent) =>
        LET str == request.salt
            bytes == HexDecode(SubSeq(str, 3, Len(str)))
        IN  /\ Len(str) = 66
            /\ str[1] = "0" /\ str[2] = "x"
            /\ \A k \in 3..66 : \E v \in 1..16 : HexChars[v] = str[k]
            /\ bytes = SubSeq(hash_input, 22, 53)
            /\ request.address = address
            /\ request.score = score
            /\ SubSeq(bytes, 1, 20) = config.calling_address
            /\ SubSeq(bytes, 21, 24) = salt
            /\ IsLittleEndianOf(bytes, 25, solutions[1])
            /\ (solutions[1] = <<0, 0, 0, 1>> =>
                    SubSeq(str, 51, 66) =
                        <<"0", "1", "0", "0", "0", "0", "0", "0",
                          "0", "0", "0", "0", "0", "0", "0", "0">>)

C2_Witness ==
    /\ request # Absent
    /\ hash_input # Absent
    /\ solutions[1] = <<0, 0, 0, 1>>
    /\ config.calling_address = Rep(0, 19) \o <<2>>
    /\ request.address = address

\* b = a + 1 as numbers, for two u32 in limbs
IsSuccessor(a, b) ==
    \/ a[2] < MaxLimb /\ b = <<a[1], a[2] + 1>>
    \/ a[2] = MaxLimb /\ a[1] < MaxLimb /\ b = <<a[1] + 1, 0>>

\* a kernel is enqueued in a round that has dispatched before
NextDispatch == pc = "enq" /\ pc' = "sleep" /\ last_dispatch # Absent

\* C3 (as claimed): within a round, each dispatch after a zero result gets a nonce
\* that is greater than, and exactly 1 more than, the nonce of the dispatch before,
\* for every seed, and the same run segment and message buffer.
C3_NonceStrictlyIncreases ==
    [][NextDispatch =>
        /\ IsSuccessor(last_dispatch.nonce, last_dispatch'.nonce)
        /\ WideLess(last_dispatch.nonce, last_dispatch'.nonce)
        /\ last_dispatch'.message = last_dispatch.message
        /\ UNCHANGED <<salt, message_buffer>>]_vars

\* a non-zero result has been read and the finding is not yet sent
Finding == pc \in {"check", "harvest", "send"} /\ solutions[1] # Zero64

C4_LeavesRound ==
    /\ (pc = "check" /\ solutions[1] # Zero64) => pc' = "harvest"
    /\ Finding =>
        /\ pc' \in {"harvest", "send", "round_start"}
        /\ UNCHANGED <<dispatches, last_dispatch, salt, nonce, nonce_buffer>>
    /\ (pc = "round_start" /\ pc' = "kernel") =>
        /\ salt' \in RunSegments
        /\ message_buffer'.data = salt'
        /\ nonce' \in {<<seed>> : seed \in NonceSeeds}
        /\ nonce_buffer'.data = nonce'
        /\ solutions' = <<Zero64>>
        /\ dispatches' = 0
        /\ prev_salt' = salt

\* C4 (amended): a non-zero lane result ends the round (no further dispatch in it)
\* and the next round draws a run segment and a nonce seed anew; the draw does
\* not depend on the round just finished, so the new run segment may equal the old.
C4_NewRoundAfterFinding == [][C4_LeavesRound]_vars

\* C4 (as claimed): as above, and the new round's run segment is never the run
\* segment of the round just finished.
C4_Original ==
    [][C4_LeavesRound /\ ((pc = "round_start" /\ pc' = "kernel" /\ salt # Absent) => salt' # salt)]_vars

C4_Witness ==
    /\ pc = "enq"
    /\ prev_salt # Absent
    /\ salt = prev_salt
    /\ dispatches = 0

\* C5: a failed send does not end the search: gpu() returns no error, the finding
\* is handed to the client once, and the loop goes to the next round as it does
\* after a successful send.
C5_SendFailureIsNotFatal ==
    [][(pc = "send") =>
        /\ pc' = "round_start"
        /\ gpu_result' = "running"
        /\ exit_code' = -1
        /\ fault' = None
        /\ round_sends = 0 /\ round_sends' = 1
        /\ UNCHANGED <<bufferVars, clockVars, dispatchVars>>]_vars

C5_Witness ==
    /\ pc = "sleep"
    /\ prev_salt # Absent
    /\ "Failed to send result to endpoint" \in stderr
    /\ gpu_result = "running"
    /\ round_sends = 0

\* C6: a failed buffer build, kernel build, argument binding, enqueue or read-back
\* makes gpu() return the error: no dispatch and no report follows, and the
\* process exits with status 1 after a diagnostic.
C6_DeviceFailureIsFatal ==
    /\ [](fault # None => (pc \in {"gpu_returned", "exited"} /\ gpu_result = "Err"))
    /\ [](pc = "exited" => (fault # None /\ exit_code = 1 /\ "GPU application error" \in stderr))
    /\ [][fault # None =>
            /\ pc = "gpu_returned" /\ pc' = "exited" /\ exit_code' = 1
            /\ UNCHANGED <<fault, dispatchVars, httpVars>>]_vars

C6_Witness ==
    /\ pc = "exited"
    /\ fault = "read"
    /\ dispatches = 2
    /\ exit_code = 1

\* C10 (as claimed): the loop stops only when a device or dispatch operation
\* fails, so gpu() ends only by returning that error.
C10_StopsOnlyOnDeviceError ==
    (pc \in {"gpu_returned", "exited", "panicked"}) => (gpu_result = "Err" /\ fault # None)

\* ---------------------------------------------------------------------------
\* Argument parsing: Config::new (lib.rs:38-95) and its caller (main.rs:6-9)
\* ---------------------------------------------------------------------------

UpperHexChars == <<"0", "1", "2", "3", "4", "5", "6", "7", "8", "9",
                   "A", "B", "C", "D", "E", "F">>

DecChars == <<"0", "1", "2", "3", "4", "5", "6", "7", "8", "9">>

\* value of one hexadecimal digit of either case, -1 for any other character
HexDigit(c) ==
    IF \E v \in 1..16 : HexChars[v] = c
    THEN (CHOOSE v \in 1..16 : HexChars[v] = c) - 1
    ELSE IF \E v \in 1..16 : UpperHexChars[v] = c
    THEN (CHOOSE v \in 1..16 : UpperHexChars[v] = c) - 1
    ELSE -1

\* hex::decode strips one leading "0x"
strip_prefix(str) ==
    IF Len(str) >= 2 /\ str[1] = "0" /\ str[2] = "x"
    THEN SubSeq(str, 3, Len(str))
    ELSE str

\* hex::decode as called at lib.rs:62, 65 and 68: an odd number of digits or
\* a character that is no hexadecimal digit is an error
hex_decode(str) ==
    LET digits == strip_prefix(str)
    IN  IF Len(digits) % 2 = 1 \/ \E k \in 1..Len(digits) : HexDigit(digits[k]) = -1
        THEN [ok |-> FALSE, bytes |-> <<>>]
        ELSE [ok |-> TRUE,
              bytes |-> [i \in 1..(Len(digits) \div 2) |->
                            16 * HexDigit(digits[2 * i - 1]) + HexDigit(digits[2 * i])]]

\* Vec<u8> -> [u8; n] (lib.rs:73, 76, 79) succeeds for exactly n bytes
try_into(bytes, n) == Len(bytes) = n

\* decimal value of a digit string, -1 when a character is no digit or the
\* value leaves the range of u8
RECURSIVE DecValue(_, _)
DecValue(str, acc) ==
    IF str = <<>> THEN acc
    ELSE IF ~ \E v \in 1..10 : DecChars[v] = Head(str) THEN -1
    ELSE LET d == (CHOOSE v \in 1..10 : DecChars[v] = Head(str)) - 1
         IN  IF acc * 10 + d > 255 THEN -1 ELSE DecValue(Tail(str), acc * 10 + d)

\* str::parse::<u8> (lib.rs:84): an optional "+", then at least one digit
parse_u8(str) ==
    LET digits == IF Len(str) >= 1 /\ str[1] = "+" THEN Tail(str) ELSE str
    IN  IF digits = <<>> THEN -1 ELSE DecValue(digits, 0)

\* the fallback of lib.rs:52-55
DefaultGpuDevice == <<"2", "5", "5">>

\* the fourth argument, or the fallback when there is none
GpuDeviceString(a) == IF Len(a) >= 5 THEN a[5] ELSE DefaultGpuDevice

\* Config::new: the outcome for an argument list a (a[1] is the program name)
Config_new(a) ==
    LET Err(msg) == [kind |-> "Err", msg |-> msg, config |-> Absent]
    IN  IF Len(a) < 2 THEN Err("didn't get a factory_address argument")
        ELSE IF Len(a) < 3 THEN Err("didn't get a calling_address argument")
        ELSE IF Len(a) < 4 THEN Err("didn't get an init_code_hash argument")
        ELSE IF Len(a) < 6 THEN [kind |-> "panic", msg |-> "need endpoint_url", config |-> Absent]
        ELSE LET factory == hex_decode(a[2])
                 caller  == hex_decode(a[3])
                 hash    == hex_decode(a[4])
                 gpu_device == parse_u8(GpuDeviceString(a))
             IN  IF ~ factory.ok THEN Err("could not decode factory address argument")
                 ELSE IF ~ caller.ok THEN Err("could not decode calling address argument")
                 ELSE IF ~ hash.ok THEN Err("could not decode initialization code hash argument")
                 ELSE IF ~ try_into(factory.bytes, 20) THEN Err("invalid length for factory address argument")
                 ELSE IF ~ try_into(caller.bytes, 20) THEN Err("invalid length for calling address argument")
                 ELSE IF ~ try_into(hash.bytes, 32) THEN Err("invalid length for initialization code hash argument")
                 ELSE IF gpu_device = -1 THEN Err("invalid gpu device value")
                 ELSE [kind |-> "Ok", msg |-> None,
                       config |-> [factory_address |-> factory.bytes,
                                   calling_address |-> caller.bytes,
                                   init_code_hash  |-> hash.bytes,
                                   gpu_device      |-> gpu_device,
                                   endpoint_url    |-> a[6]]]

\* hexadecimal text of n bytes, all digits d
HexText(d, n) == Rep(d, 2 * n)

FactoryArgs == {HexText("a", 20),                          \* accepted
                <<"0", "x">> \o HexText("1", 20),          \* accepted, prefixed
                HexText("B", 20),                          \* accepted, upper case
                HexText("a", 19),                          \* one byte short
                HexText("a", 20) \o <<"a">>,               \* odd number of digits
                HexText("a", 19) \o <<"z", "z">>}          \* not hexadecimal

CallerArgs == {HexText("c", 20), HexText("c", 21), <<"0", "X">> \o HexText("c", 20)}

HashArgs == {HexText("e", 32), HexText("e", 20), HexText("e", 31) \o <<"e", "g">>}

DeviceArgs == {<<"0">>, <<"2", "5", "5">>, <<"2", "5", "6">>, <<"+", "7">>, <<"g", "p", "u">>}

Program == <<"c", "r", "u", "n", "c", "h">>

\* argument lists of every length the command line can have
ArgLists ==
    {<<Program>>}
    \cup {<<Program, f>> : f \in FactoryArgs}
    \cup {<<Program, f, c>> : f \in FactoryArgs, c \in CallerArgs}
    \cup {<<Program, f, c, h>> : f \in FactoryArgs, c \in CallerArgs, h \in HashArgs}
    \cup {<<Program, f, c, h, d>> : f \in FactoryArgs, c \in CallerArgs, h \in HashArgs,
                                   d \in DeviceArgs \cup {Url}}
    \cup {<<Program, f, c, h, d, Url>> : f \in FactoryArgs, c \in CallerArgs, h \in HashArgs,
                                        d \in DeviceArgs}

\* the process before main calls Config::new
ConfigInit ==
    /\ pc = "config_new"
    /\ overflow_checks \in BOOLEAN
    /\ args \in ArgLists
    /\ devices \in 1..MaxDevices
    /\ config = Absent
    /\ address = Absent /\ score = Absent
    /\ Idle

\* main.rs:6: Config::new(env::args())
ConfigNew ==
    /\ pc = "config_new"
    /\ LET r == Config_new(args)
       IN  /\ fault' = r.msg
           /\ config' = r.config
           /\ pc' = CASE r.kind = "Ok"    -> "setup"
                      [] r.kind = "Err"   -> "config_err"
                      [] r.kind = "panic" -> "panicked"
           /\ stderr' = IF r.kind = "panic" THEN stderr \cup {r.msg} ELSE stderr
           /\ exit_code' = IF r.kind = "panic" THEN 101 ELSE exit_code
    /\ UNCHANGED <<overflow_checks, args, devices, sessionVars, bufferVars, clockVars, slept, findingVars,
                   httpVars, gpu_result, dispatchVars, prev_salt>>

\* main.rs:6-9: unwrap_or_else prints the error and exits with status 1
ConfigErr ==
    /\ pc = "config_err"
    /\ pc' = "exited"
    /\ stderr' = stderr \cup {"Failed parsing arguments"}
    /\ exit_code' = 1
    /\ UNCHANGED <<buildVars, sessionVars, bufferVars, clockVars, slept, findingVars, httpVars,
                   gpu_result, fault, dispatchVars, prev_salt>>

ConfigNext == ConfigNew \/ ConfigErr

ConfigSpec == ConfigInit /\ [][ConfigNext]_vars

\* the argument at position k of the command line decodes to exactly n bytes
DecodesTo(a, k, n) ==
    Len(a) >= k + 1 /\ hex_decode(a[k + 1]).ok /\ Len(hex_decode(a[k + 1]).bytes) = n

\* factory address, caller address and init-code hash are all present and
\* decode to 20, 20 and 32 bytes
FieldsValid(a) == DecodesTo(a, 1, 20) /\ DecodesTo(a, 2, 20) /\ DecodesTo(a, 3, 32)

\* C11 (as claimed): Config::new yields a Config only for fields of 20, 20 and
\* 32 bytes, and every argument list with a missing, malformed or wrong-length
\* field ends in an error value, never in a panic and never in a Config.
C11_BadFieldIsAnErrorValue ==
    (pc # "config_new") =>
        /\ (config # Absent =>
               /\ FieldsValid(args)
               /\ Len(config.factory_address) = 20
               /\ Len(config.calling_address) = 20
               /\ Len(config.init_code_hash) = 32)
        /\ (~ FieldsValid(args) =>
               /\ config = Absent
               /\ pc \in {"config_err", "exited"}
               /\ exit_code # 101)

\* the device selector is left out of an otherwise valid command line: the
\* three fields alone, or the three fields followed by the endpoint
SelectorOmitted(a) ==
    /\ FieldsValid(a)
    /\ \/ Len(a) = 4
       \/ Len(a) = 5 /\ a[5] = Url

\* C17 (as claimed): with the device selector omitted from an otherwise valid
\* argument list, Config::new returns a Config whose gpu_device is 255.
C17_OmittedSelectorDefaults ==
    (pc # "config_new" /\ SelectorOmitted(args)) =>
        (config # Absent /\ config.gpu_device = 255)

\* the step that takes the host from the enqueue to the read-back
SleepStep == pc = "sleep" /\ pc' = "read"

NinetyEightPercent(d) == WideDiv(WideMul(<<0>> \o d, 980).value, 1000)

\* C13 (as claimed): on every dispatch but the first of the process the host
\* sleeps, between the enqueue and the read-back, for d * 980 / 1000 (rounded
\* down) milliseconds, d being the duration measured for the preceding
\* dispatch, and it skips the sleep only when d is 0.
C13_SleepsNinetyEightPercent ==
    [][(pc = "sleep" /\ ~ (dispatches = 1 /\ prev_salt = Absent)) =>
           /\ pc' = "read"
           /\ IF work_duration_millis = Wide64(0)
              THEN slept' = Absent
              ELSE /\ slept' # Absent
                   /\ <<0>> \o slept' = NinetyEightPercent(work_duration_millis)]_vars

\* the kernel source defines constant n exactly once, with value x
DefinedOnce(n, x) ==
    /\ Cardinality({k \in DOMAIN program_src : program_src[k][1] = n}) = 1
    /\ \E k \in DOMAIN program_src : program_src[k] = <<n, x>>

\* the constants appear in ascending order of their numbers
InByteOrder ==
    \A k \in DOMAIN program_src :
        k > 1 => program_src[k - 1][1] < program_src[k][1]

\* one constant per configuration byte, the init-code hash starting at first
ConstantsAt(first) ==
    /\ \A j \in 1..20 : DefinedOnce(j, config.factory_address[j])
    /\ \A j \in 1..20 : DefinedOnce(20 + j, config.calling_address[j])
    /\ \A j \in 1..32 : DefinedOnce(first + j - 1, config.init_code_hash[j])
    /\ Len(program_src) = 72
    /\ InByteOrder

\* C14 (as claimed): factory bytes are constants 1..20, caller bytes 21..40
\* and init-code-hash bytes 52..83, each defined once, in byte order.
C14_Original == (program_src # Absent) => ConstantsAt(52)

\* C14 (amended): factory bytes are constants 1..20, caller bytes 21..40 and
\* init-code-hash bytes 53..84, each defined once, in byte order.
C14_KernelConstants == (program_src # Absent) => ConstantsAt(53)

\* the kernel source has been generated for the empty-code hash
C14_Witness ==
    /\ pc = "round_start" /\ program_src # Absent
    /\ config.init_code_hash = EmptyCodeHash
    /\ program_src[41] = <<53, 197>>

C15_InputBuffersReadOnly ==
    (pc = "sleep") =>
        /\ nonce_buffer.flags = "read_only"
        /\ last_dispatch.nonce_flags = "read_only"
        /\ message_buffer.flags = "read_only"
        /\ solutions_buffer.flags \in {"write_only", "read_write"}

\* the lane result a report carries: the last 8 bytes of its salt
ReportCarries(r) ==
    LET str == request.salt
        bytes == HexDecode(SubSeq(str, 3, Len(str)))
    IN  IsLittleEndianOf(bytes, 25, r)

\* C18: a round hands exactly one report to the HTTP client, only after a
\* dispatch of that round returned a non-zero lane result, and the report
\* carries that value; nothing is reported for a zero result; the host slot and
\* the device solutions buffer are zero whenever a kernel is enqueued, so no
\* value of an earlier round is reported again.
C18_OneReportPerRound ==
    /\ round_sends \in {0, 1}
    /\ (round_sends = 1) <=> (request # Absent)
    /\ (pc = "round_start" /\ salt # Absent) => round_sends = 1
    /\ (request # Absent /\ solutions # Absent) =>
           /\ dispatches >= 1
           /\ solutions[1] # Zero64
           /\ solutions = solutions_buffer.data
           /\ ReportCarries(solutions[1])
    /\ (pc \in {"kernel", "enq"}) =>
           (solutions = <<Zero64>> /\ solutions_buffer.data = <<Zero64>>)
    /\ (last_dispatch # Absent) => last_dispatch.slot = Zero64

\* a second round has ended with its one report handed over
C18_Witness ==
    /\ pc = "round_start" /\ prev_salt # Absent
    /\ round_sends = 1 /\ request # Absent /\ dispatches >= 2
    /\ ReportCarries(solutions[1])

\* C19 (as claimed): the measured work duration is the non-negative elapsed
\* time between the two clock readings of the dispatch: the subtraction never
\* underflows, whatever the wall clock does, and the sleep that follows is
\* never longer than that duration.
C19_DurationIsElapsedTime ==
    [][/\ (pc = "read" /\ fault' = None) =>
              /\ pc' = "check"
              /\ \E end \in ClockReadings :
                     /\ ~ WideLess(end, work_start_time_millis)
                     /\ work_duration_millis' = WideSub(end, work_start_time_millis).value
       /\ (SleepStep /\ slept' # Absent) =>
              ~ WideLess(work_duration_millis, slept')]_vars

====
